---- MODULE Spec2Model ----
(***************************************************************************)
(* Model of the notebook ddp_ex_MF_7_6_4_py.ipynb: an American put option  *)
(* priced as a finite-horizon discrete dynamic program.  The notebook's    *)
(* cells run top to bottom; each cell (and each iteration of its loops) is *)
(* one action.  Real numbers are fixed-point integers with SCALE units per *)
(* 1.0, so 2.1 is 21000.  Arrays are functions on 0..len-1, as in the      *)
(* source.                                                                 *)
(***************************************************************************)
EXTENDS Integers, Sequences, FiniteSets, TLC

(***************************************************************************)
(* Bounds of the model.                                                    *)
(***************************************************************************)
MaxN == 2

\* the longest trajectory of the controlled Markov chain that is followed
MaxChain == 3

(***************************************************************************)
(* Fixed-point arithmetic.                                                 *)
(***************************************************************************)
SCALE == 10^4
HALF == SCALE \div 2
ONE == SCALE

\* a*b/SCALE rounded down, computed without forming a*b
FMul(a, b) == (a \div SCALE) * b + ((a % SCALE) * b) \div SCALE

FDiv(a, b) == (a * SCALE) \div b

RECURSIVE ISqrtBetween(_, _, _)
ISqrtBetween(x, lo, hi) ==
    IF lo >= hi THEN lo
    ELSE LET mid == (lo + hi + 1) \div 2
         IN  IF mid * mid <= x THEN ISqrtBetween(x, mid, hi)
                               ELSE ISqrtBetween(x, lo, mid - 1)

\* np.sqrt on fixed-point: sqrt(a/SCALE)*SCALE = sqrt(a*SCALE)
FSqrt(a) == ISqrtBetween(a * SCALE, 0, 40000)

RECURSIVE ExpSeries(_, _, _)
ExpSeries(x, k, term) ==
    IF k > 12 THEN 0
    ELSE term + ExpSeries(x, k + 1, FMul(term, x) \div (k + 1))

\* np.exp on fixed-point: the Taylor series of exp, terms 0..12
FExp(x) == ExpSeries(x, 0, ONE)

RECURSIVE FPowNat(_, _)
FPowNat(b, k) == IF k = 0 THEN ONE ELSE FMul(FPowNat(b, k - 1), b)

\* u**k for an integer exponent k of either sign
FPow(b, k) == IF k >= 0 THEN FPowNat(b, k) ELSE FDiv(ONE, FPowNat(b, -k))

(***************************************************************************)
(* Arrays.                                                                 *)
(***************************************************************************)
len(a) == Cardinality(DOMAIN a)

RECURSIVE SumTo(_, _)
SumTo(a, k) == IF k < 0 THEN 0 ELSE a[k] + SumTo(a, k - 1)

\* a.sum()
Sum(a) == SumTo(a, len(a) - 1)

\* the cut taken at the wrong end: a[1:] instead of a[:-1]
DropLast_first(a) == [j \in 0..(len(a) - 2) |-> a[j + 1]]

\* a[:-1]
DropLast(a) == [j \in 0..(len(a) - 2) |-> a[j]]

Min(a, b) == IF a <= b THEN a ELSE b
Max(a, b) == IF a >= b THEN a ELSE b

\* what np.empty can hold before it is written
Garbage == {-7777, 0, 12345}

(***************************************************************************)
(* State: the notebook's global names, the loop indices of its cells, and  *)
(* the argument and locals of backward_induction.                          *)
(***************************************************************************)
VARIABLES
    pc,          \* the cell (or loop position) about to run
    T, vol, r, strike, p0, N,      \* cell 3: model parameters
    tau, beta, u, q,               \* cell 3: derived quantities
    ps, n, L,                      \* cell 4
    s_indices, a_indices,          \* cell 5
    R,                             \* cell 6
    Q, i,                          \* cell 7 and its loop index
    ddp,                           \* cell 8
    v_term,                        \* backward_induction's optional argument
    vs, sigmas, t,                 \* cell 9: backward_induction's arrays and loop index
    steps,                         \* number of backups done by the solve
    pending,                       \* states whose backup of the current period is still to run
    v, max_exercise_price,         \* cell 10
    chain                          \* a trajectory of the controlled Markov chain of the MDP

vars == <<pc, T, vol, r, strike, p0, N, tau, beta, u, q, ps, n, L,
          s_indices, a_indices, R, Q, i, ddp, v_term, vs, sigmas, t, steps,
          pending, v, max_exercise_price, chain>>

\* what the cells 3 to 9 of a sequential run never touch
aux == <<pending, v, max_exercise_price, chain>>

\* Number of actions: 0 hold, 1 exercise
m == 2

\* the value of a name that is not bound yet
Unset == <<>>

\* v_term=None
None == <<>>

(***************************************************************************)
(* Cell 3: derived quantities.                                             *)
(***************************************************************************)
\* tau = T/N
tau_of(Tv, Nv) == Tv \div Nv

\* beta = np.exp(-r*tau)
beta_of(rv, tauv) == FExp(-FMul(rv, tauv))

\* u = np.exp(vol*np.sqrt(tau))
u_of(volv, tauv) == FExp(FMul(volv, FSqrt(tauv)))

\* q = 1/2 + np.sqrt(tau)*(r - (vol**2)/2)/(2*vol)
q_of(tauv, rv, volv) ==
    HALF + FDiv(FMul(FSqrt(tauv), rv - FMul(volv, volv) \div 2), 2 * volv)

(***************************************************************************)
(* Cell 4: the price lattice.                                              *)
(***************************************************************************)
\* ps = u**np.arange(-N, N+1) * p0
ps_of(uv, Nv, p0v) == [k \in 0..(2 * Nv) |-> FMul(FPow(uv, k - Nv), p0v)]

(***************************************************************************)
(* Cell 5: state and action indices of the state-action pairs.             *)
(***************************************************************************)
\* quantecon's sa_indices(num_states, num_actions): state-major, action-minor
sa_indices(nn, mm) ==
    [s |-> [k \in 0..(nn * mm - 1) |-> k \div mm],
     a |-> [k \in 0..(nn * mm - 1) |-> k % mm]]

(***************************************************************************)
(* Cell 6: the reward vector.                                              *)
(***************************************************************************)
\* R_grid with the payoff's sign turned: ps - strike
R_grid_call_payoff(nn, psv, strikev, g) ==
    [s \in 0..(nn - 1) |->
        [a \in 0..(m - 1) |->
            IF a = 0 THEN 0
            ELSE IF s < nn - 1 THEN psv[s] - strikev
            ELSE g]]

\* R_grid without R[:, 0] = 0: the hold column keeps what np.empty left
R_grid_hold_unwritten(nn, psv, strikev, g) ==
    [s \in 0..(nn - 1) |->
        [a \in 0..(m - 1) |->
            IF a = 0 THEN g
            ELSE IF s < nn - 1 THEN strikev - psv[s]
            ELSE g]]

\* R = np.empty((n, m)); R[:, 0] = 0; R[:-1, 1] = strike - ps
\* g is what np.empty left in the entry that is never written
R_grid(nn, psv, strikev, g) ==
    [s \in 0..(nn - 1) |->
        [a \in 0..(m - 1) |->
            IF a = 0 THEN 0
            ELSE IF s < nn - 1 THEN strikev - psv[s]
            ELSE g]]

\* R.ravel()
ravel(grid) == [k \in 0..(len(grid) * m - 1) |-> grid[k \div m][k % m]]

\* R_of with the first entry cut instead of the last: R.ravel()[1:]
R_of_first_cut(nn, psv, strikev, g) ==
    [k \in 0..(nn * m - 2) |-> ravel(R_grid(nn, psv, strikev, g))[k + 1]]

\* R = R.ravel()[:-1]
R_of(nn, psv, strikev, g) == DropLast(ravel(R_grid(nn, psv, strikev, g)))

(***************************************************************************)
(* Cell 7: the transition probability array.                               *)
(***************************************************************************)
\* sparse.lil_matrix((L, n))
lil_matrix(rows, cols) == [k \in 0..(rows - 1) |-> [j \in 0..(cols - 1) |-> 0]]

\* Q[k, j] = val, a negative j counting from the end as Python does
SetEntry(Qm, k, j, val) ==
    [Qm EXCEPT ![k][IF j < 0 THEN j + len(Qm[k]) ELSE j] = val]

\* Q_hold with q written where 1 - q belongs
Q_hold_q_twice(Qm, k, sidx, psv, qv) ==
    SetEntry(SetEntry(Qm, k, Min(sidx[k] + 1, len(psv) - 1), qv),
             k, Max(sidx[k] - 1, 0), qv)

\* Q_hold without the min/max that keep the neighbour on the lattice
Q_hold_unclamped(Qm, k, sidx, psv, qv) ==
    SetEntry(SetEntry(Qm, k, sidx[k] + 1, qv), k, sidx[k] - 1, ONE - qv)

\* Q[i, min(s_indices[i]+1, len(ps)-1)] = q; Q[i, max(s_indices[i]-1, 0)] = 1 - q
Q_hold(Qm, k, sidx, psv, qv) ==
    SetEntry(SetEntry(Qm, k, Min(sidx[k] + 1, len(psv) - 1), qv),
             k, Max(sidx[k] - 1, 0), ONE - qv)

\* Q[i, n-1] = 1
Q_exercise(Qm, k, nn) == SetEntry(Qm, k, nn - 1, ONE)

\* Q_last with the column off by one
Q_last_wrong_column(Qm, Lv, nn) == SetEntry(Qm, Lv - 1, nn - 2, ONE)

\* Q[L-1, n-1] = 1
Q_last(Qm, Lv, nn) == SetEntry(Qm, Lv - 1, nn - 1, ONE)

(***************************************************************************)
(* Inputs.                                                                 *)
(***************************************************************************)
Ts == {5000, 10000}
Vols == {2000, 4000}
Rates == {500, 5000}
Strikes == {19000, 20000, 21000}
P0s == {20000}
Ns == 1..MaxN

\* terminal value vectors a caller may pass: none, constant, increasing
VTerms(nn) ==
    {None} \cup {[j \in 0..(nn - 1) |-> c] : c \in {-1000, 1000}}
           \cup {[j \in 0..(nn - 1) |-> 500 * j]}

\* the lattice, discount factor and up-jump probability of the seed case
SeedPs == [k \in 0..2 |-> 18000 + 2000 * k]
SeedBetas == {9900, ONE}
SeedQs == {2500, 5000}

UnsetBuilt ==
    /\ n = 0 /\ L = 0
    /\ s_indices = Unset /\ a_indices = Unset
    /\ R = Unset /\ Q = Unset /\ i = 0
    /\ ddp = Unset
    /\ vs = Unset /\ sigmas = Unset /\ t = 0 /\ steps = 0
    /\ pending = {} /\ v = Unset /\ max_exercise_price = Unset /\ chain = Unset

\* the notebook run from its first cell
InitNotebook ==
    /\ pc = "cell3"
    /\ T \in Ts /\ vol \in Vols /\ r \in Rates
    /\ strike \in Strikes /\ p0 \in P0s /\ N \in Ns
    /\ tau = 0 /\ beta = 0 /\ u = 0 /\ q = 0
    /\ ps = Unset
    /\ v_term \in VTerms(2 * N + 2)
    /\ UnsetBuilt

\* cells 4 (counts) to 9 run on a lattice, beta and q given directly
InitLattice ==
    /\ pc = "cell4_n"
    /\ T = 0 /\ vol = 0 /\ r = 0 /\ p0 = 0 /\ tau = 0 /\ u = 0
    /\ strike \in Strikes /\ N \in Ns
    /\ beta \in SeedBetas /\ q \in SeedQs
    /\ ps = SeedPs
    /\ v_term \in VTerms(len(SeedPs) + 1)
    /\ UnsetBuilt

Init == InitNotebook \/ InitLattice

(***************************************************************************)
(* Cells 3 to 8.                                                           *)
(***************************************************************************)
Cell3 ==
    /\ pc = "cell3"
    /\ tau' = tau_of(T, N)
    /\ beta' = beta_of(r, tau')
    /\ u' = u_of(vol, tau')
    /\ q' = q_of(tau', r, vol)
    /\ pc' = "cell4_ps"
    /\ UNCHANGED <<T, vol, r, strike, p0, N, ps, n, L, s_indices, a_indices,
                   R, Q, i, ddp, v_term, vs, sigmas, t, steps>>
    /\ UNCHANGED aux

Cell4_ps ==
    /\ pc = "cell4_ps"
    /\ ps' = ps_of(u, N, p0)
    /\ pc' = "cell4_n"
    /\ UNCHANGED <<T, vol, r, strike, p0, N, tau, beta, u, q, n, L,
                   s_indices, a_indices, R, Q, i, ddp, v_term, vs, sigmas, t, steps>>
    /\ UNCHANGED aux

\* n = len(ps) + 1; L = n*m - 1
Cell4_n ==
    /\ pc = "cell4_n"
    /\ n' = len(ps) + 1
    /\ L' = n' * m - 1
    /\ pc' = "cell5"
    /\ UNCHANGED <<T, vol, r, strike, p0, N, tau, beta, u, q, ps,
                   s_indices, a_indices, R, Q, i, ddp, v_term, vs, sigmas, t, steps>>
    /\ UNCHANGED aux

\* s_indices, a_indices = sa_indices(n, m), each then cut by [:-1]
Cell5 ==
    /\ pc = "cell5"
    /\ s_indices' = DropLast(sa_indices(n, m).s)
    /\ a_indices' = DropLast(sa_indices(n, m).a)
    /\ pc' = "cell6"
    /\ UNCHANGED <<T, vol, r, strike, p0, N, tau, beta, u, q, ps, n, L,
                   R, Q, i, ddp, v_term, vs, sigmas, t, steps>>
    /\ UNCHANGED aux

Cell6 ==
    /\ pc = "cell6"
    /\ \E g \in Garbage : R' = R_of(n, ps, strike, g)
    /\ pc' = "cell7"
    /\ UNCHANGED <<T, vol, r, strike, p0, N, tau, beta, u, q, ps, n, L,
                   s_indices, a_indices, Q, i, ddp, v_term, vs, sigmas, t, steps>>
    /\ UNCHANGED aux

\* Q = sparse.lil_matrix((L, n)), and the loop starts
Cell7 ==
    /\ pc = "cell7"
    /\ Q' = lil_matrix(L, n)
    /\ i' = 0
    /\ pc' = "cell7_loop"
    /\ UNCHANGED <<T, vol, r, strike, p0, N, tau, beta, u, q, ps, n, L,
                   s_indices, a_indices, R, ddp, v_term, vs, sigmas, t, steps>>
    /\ UNCHANGED aux

\* one iteration of: for i in range(L-1)
Cell7_loop ==
    /\ pc = "cell7_loop"
    /\ i < L - 1
    /\ Q' = IF a_indices[i] = 0 THEN Q_hold(Q, i, s_indices, ps, q)
                                ELSE Q_exercise(Q, i, n)
    /\ i' = i + 1
    /\ UNCHANGED <<pc, T, vol, r, strike, p0, N, tau, beta, u, q, ps, n, L,
                   s_indices, a_indices, R, ddp, v_term, vs, sigmas, t, steps>>
    /\ UNCHANGED aux

\* the loop is over; Q[L-1, n-1] = 1
Cell7_last ==
    /\ pc = "cell7_loop"
    /\ i >= L - 1
    /\ Q' = Q_last(Q, L, n)
    /\ pc' = "cell8"
    /\ UNCHANGED <<T, vol, r, strike, p0, N, tau, beta, u, q, ps, n, L,
                   s_indices, a_indices, R, i, ddp, v_term, vs, sigmas, t, steps>>
    /\ UNCHANGED aux

\* ddp = DiscreteDP(R, Q, beta, s_indices, a_indices)
DiscreteDP(Rv, Qm, b, sidx, aidx) ==
    [R |-> Rv, Q |-> Qm, beta |-> b, s_indices |-> sidx, a_indices |-> aidx,
     num_states |-> len(Qm[0])]

Cell8 ==
    /\ pc = "cell8"
    /\ ddp' = DiscreteDP(R, Q, beta, s_indices, a_indices)
    /\ pc' = "cell9"
    /\ UNCHANGED <<T, vol, r, strike, p0, N, tau, beta, u, q, ps, n, L,
                   s_indices, a_indices, R, Q, i, v_term, vs, sigmas, t, steps>>
    /\ UNCHANGED aux

(***************************************************************************)
(* Cell 9: vs, sigmas = backward_induction(ddp, N).  The solver is         *)
(* quantecon's, so it is modelled from its specification: the backup       *)
(*   Q(s,a) = reward(s,a) + beta * sum_s' P(s,a,s') * V_{t+1}(s')          *)
(*   V_t(s) = max_a Q(s,a),  policy_t(s) = argmax_a Q(s,a), lowest a first *)
(* applied for t from N-1 down to 0.                                       *)
(***************************************************************************)
RECURSIVE DotTo(_, _, _)
DotTo(row, vv, j) ==
    IF j < 0 THEN 0 ELSE FMul(row[j], vv[j]) + DotTo(row, vv, j - 1)

\* sum_s' P(s,a,s') * V(s') for the state-action pair k
Qdot(Qm, vv, k) == DotTo(Qm[k], vv, len(vv) - 1)

\* Q(s,a) of every state-action pair, given the next period's values vv
vals_of(d, vv) ==
    [k \in DOMAIN d.R |-> d.R[k] + FMul(d.beta, Qdot(d.Q, vv, k))]

\* the state-action pairs of state s
pairs_of(d, s) == {k \in DOMAIN d.s_indices : d.s_indices[k] = s}

\* s_wise_max that takes the value of the state's first pair
s_wise_max_first_pair(d, vals) ==
    [s \in 0..(d.num_states - 1) |->
        vals[CHOOSE k \in pairs_of(d, s) : \A k2 \in pairs_of(d, s) : k <= k2]]

\* V(s) = max_a Q(s,a)
s_wise_max(d, vals) ==
    [s \in 0..(d.num_states - 1) |->
        CHOOSE x \in {vals[k] : k \in pairs_of(d, s)} :
            \A k \in pairs_of(d, s) : vals[k] <= x]

\* the argmax with ties broken by the highest action index
s_wise_argmax_highest(d, vals) ==
    [s \in 0..(d.num_states - 1) |->
        LET best == {d.a_indices[k] : k \in
                        {k2 \in pairs_of(d, s) :
                            \A k3 \in pairs_of(d, s) : vals[k3] <= vals[k2]}}
        IN  CHOOSE a \in best : \A a2 \in best : a >= a2]

\* policy(s) = argmax_a Q(s,a), ties broken by the lowest action index
s_wise_argmax(d, vals) ==
    [s \in 0..(d.num_states - 1) |->
        LET best == {d.a_indices[k] : k \in
                        {k2 \in pairs_of(d, s) :
                            \A k3 \in pairs_of(d, s) : vals[k3] <= vals[k2]}}
        IN  CHOOSE a \in best : \A a2 \in best : a <= a2]

\* one backup: the values and the policy of a period from the next period's values
bellman_operator(d, vv) ==
    LET vals == vals_of(d, vv)
    IN  [Tv |-> s_wise_max(d, vals), sigma |-> s_wise_argmax(d, vals)]

\* MalformedMDP: a row that is no probability distribution, or a state with no action
Malformed(d) ==
    \/ \E k \in DOMAIN d.Q : Sum(d.Q[k]) # ONE
    \/ \E k \in DOMAIN d.Q : \E j \in DOMAIN d.Q[k] : d.Q[k][j] < 0
    \/ \E s \in 0..(d.num_states - 1) : pairs_of(d, s) = {}

\* the terminal value vector: v_term, or zeros when it is None
terminal_of(vterm, nn) ==
    IF vterm = None THEN [j \in 0..(nn - 1) |-> 0] ELSE vterm

\* the value array as allocated: N+1 rows, row N the terminal vector
vs_alloc(Nv, nn, vterm, g) ==
    [row \in 0..Nv |->
        IF row = Nv THEN terminal_of(vterm, nn) ELSE [j \in 0..(nn - 1) |-> g]]

\* the policy array as allocated: N rows
sigmas_alloc(Nv, nn, g) == [row \in 0..(Nv - 1) |-> [j \in 0..(nn - 1) |-> g]]

\* row_below off by one: the backup writes the row it read
row_below_same(tt) == tt

\* the period whose row a backup reading row tt writes
row_below(tt) == tt - 1

\* the call: the MDP is checked, the arrays are allocated
Cell9 ==
    /\ pc = "cell9"
    /\ N >= 1
    /\ ~Malformed(ddp)
    /\ \E g \in Garbage :
          /\ vs' = vs_alloc(N, ddp.num_states, v_term, g)
          /\ sigmas' = sigmas_alloc(N, ddp.num_states, g)
    /\ t' = N
    /\ pc' = "cell9_loop"
    /\ UNCHANGED <<T, vol, r, strike, p0, N, tau, beta, u, q, ps, n, L,
                   s_indices, a_indices, R, Q, i, ddp, v_term, steps>>
    /\ UNCHANGED aux

\* the call fails with MalformedMDP and returns nothing
Cell9_malformed ==
    /\ pc = "cell9"
    /\ Malformed(ddp)
    /\ pc' = "MalformedMDP"
    /\ UNCHANGED <<T, vol, r, strike, p0, N, tau, beta, u, q, ps, n, L,
                   s_indices, a_indices, R, Q, i, ddp, v_term, vs, sigmas, t, steps>>
    /\ UNCHANGED aux

\* one backup step: row t-1 from row t
Cell9_loop ==
    /\ pc = "cell9_loop"
    /\ t > 0
    /\ LET b == bellman_operator(ddp, vs[t])
       IN  /\ vs' = [vs EXCEPT ![row_below(t)] = b.Tv]
           /\ sigmas' = [sigmas EXCEPT ![row_below(t)] = b.sigma]
    /\ t' = t - 1
    /\ steps' = steps + 1
    /\ UNCHANGED <<pc, T, vol, r, strike, p0, N, tau, beta, u, q, ps, n, L,
                   s_indices, a_indices, R, Q, i, ddp, v_term>>
    /\ UNCHANGED aux

\* the loop is over: vs, sigmas are returned
Cell9_return ==
    /\ pc = "cell9_loop"
    /\ t = 0
    /\ pc' = "cell10"
    /\ UNCHANGED <<T, vol, r, strike, p0, N, tau, beta, u, q, ps, n, L,
                   s_indices, a_indices, R, Q, i, ddp, v_term, vs, sigmas, t, steps>>
    /\ UNCHANGED aux

(***************************************************************************)
(* Cell 10: the value at period 0 and the exercise boundary.               *)
(***************************************************************************)
\* a[j], a negative j counting from the end as Python does
PyIndex(a, j) == a[IF j < 0 THEN j + len(a) ELSE j]

\* max_exercise_price without the - 1
max_exercise_price_no_minus(psv, sig) ==
    [j \in 0..(len(sig) - 1) |-> PyIndex(psv, Sum(sig[len(sig) - 1 - j]))]

\* max_exercise_price = ps[sigmas[::-1].sum(-1)-1]
max_exercise_price_of(psv, sig) ==
    [j \in 0..(len(sig) - 1) |-> PyIndex(psv, Sum(sig[len(sig) - 1 - j]) - 1)]

\* v = vs[0]; max_exercise_price = ps[sigmas[::-1].sum(-1)-1]
Cell10 ==
    /\ pc = "cell10"
    /\ v' = vs[0]
    /\ max_exercise_price' = max_exercise_price_of(ps, sigmas)
    /\ pc' = "done"
    /\ UNCHANGED <<T, vol, r, strike, p0, N, tau, beta, u, q, ps, n, L,
                   s_indices, a_indices, R, Q, i, ddp, v_term, vs, sigmas, t, steps,
                   pending, chain>>

Next ==
    \/ Cell3 \/ Cell4_ps \/ Cell4_n \/ Cell5 \/ Cell6
    \/ Cell7 \/ Cell7_loop \/ Cell7_last \/ Cell8
    \/ Cell9 \/ Cell9_malformed \/ Cell9_loop \/ Cell9_return
    \/ Cell10

Spec == Init /\ [][Next]_vars

(***************************************************************************)
(* Properties of the built MDP.                                            *)
(***************************************************************************)
\* cell 7 has run to its end: R, Q, s_indices and a_indices are final
Built == pc \in {"cell8", "cell9", "cell9_loop", "cell10", "done", "MalformedMDP"}

\* the indices k of the pairs (state s, action a)
PairsOf(s, a) == {k \in DOMAIN s_indices : s_indices[k] = s /\ a_indices[k] = a}

\* the row with val at column j and 0 elsewhere
UnitRow(j, val) == [c \in 0..(n - 1) |-> IF c = j THEN val ELSE 0]

\* C1: in a built MDP the transition row of every one of the L state-action
\* pairs sums to exactly 1: the hold and exercise rows of every price state,
\* the lowest and the highest included, and the row of the absorbing state,
\* whatever q is.
C1_RowsSumToOne ==
    Built =>
        /\ len(Q) = L
        /\ \A k \in 0..(L - 1) : Sum(Q[k]) = ONE

\* a built MDP whose q is no probability, with its boundary hold rows
C1_Witness ==
    /\ Built
    /\ q > ONE
    /\ Q[0][0] = ONE - q /\ Q[0][1] = q
    /\ Q[L - 3][n - 2] = q /\ Q[L - 3][n - 3] = ONE - q
    /\ Sum(Q[0]) = ONE /\ Sum(Q[L - 3]) = ONE

\* C2: in an MDP built from positive parameters every entry of every
\* transition row is non-negative: q >= 0 and 1 - q >= 0.
C2_EntriesNonNegative ==
    Built =>
        /\ q >= 0 /\ ONE - q >= 0
        /\ \A k \in 0..(L - 1) : \A j \in 0..(n - 1) : Q[k][j] >= 0

\* C3: the absorbing state n-1 has exactly one feasible action, action 0,
\* whose row puts probability 1 on state n-1 and 0 elsewhere, and whose
\* reward is 0.
C3_AbsorbingState ==
    Built =>
        /\ {a_indices[k] : k \in {k2 \in DOMAIN s_indices : s_indices[k2] = n - 1}} = {0}
        /\ Cardinality(PairsOf(n - 1, 0)) = 1
        /\ \A k \in PairsOf(n - 1, 0) : Q[k] = UnitRow(n - 1, ONE) /\ R[k] = 0

\* the MDP is built and the last pair is the absorbing state's self-loop
C3_Witness ==
    /\ pc = "cell8" /\ T > 0
    /\ s_indices[L - 1] = n - 1 /\ a_indices[L - 1] = 0
    /\ Q[L - 1][n - 1] = ONE /\ R[L - 1] = 0

\* C4: for every price state s in 0..n-2 the exercise action (1) has a row
\* with probability 1 on the absorbing state and 0 on every price state, and
\* reward strike - ps[s], negative when ps[s] > strike.
C4_Exercise ==
    Built =>
        \A s \in 0..(n - 2) :
            /\ Cardinality(PairsOf(s, 1)) = 1
            /\ \A k \in PairsOf(s, 1) :
                  /\ Q[k] = UnitRow(n - 1, ONE)
                  /\ R[k] = strike - ps[s]
                  /\ (ps[s] > strike => R[k] < 0)

\* a built MDP with a price state above the strike and one below it
C4_Witness ==
    /\ Built /\ T > 0
    /\ \E s \in 0..(n - 2) : ps[s] > strike /\ R[2 * s + 1] = strike - ps[s]
    /\ \E s \in 0..(n - 2) : ps[s] < strike /\ R[2 * s + 1] > 0
    /\ Q[1][n - 1] = ONE

\* C5: for every price state s the hold action (0) has reward 0 and a row
\* whose entries are q at min(s+1, 2N) and 1-q at max(s-1, 0) and 0 everywhere
\* else: no mass on the absorbing state, and at the lowest and the highest
\* price state one self entry and one entry on the only neighbour.
C5_Hold ==
    Built =>
        /\ (T > 0 => len(ps) - 1 = 2 * N)
        /\ \A s \in 0..(n - 2) :
              /\ Cardinality(PairsOf(s, 0)) = 1
              /\ \A k \in PairsOf(s, 0) :
                    /\ R[k] = 0
                    /\ Q[k][n - 1] = 0
                    /\ Q[k] = [c \in 0..(n - 1) |->
                                 IF c = Min(s + 1, len(ps) - 1) THEN q
                                 ELSE IF c = Max(s - 1, 0) THEN ONE - q
                                 ELSE 0]

\* a built MDP, q not 1/2, whose lowest and highest price states hold on
\* themselves and on their one neighbour
C5_Witness ==
    /\ pc = "cell10" /\ T > 0
    /\ q # HALF /\ q > 0 /\ q < ONE
    /\ Q[0][0] = ONE - q /\ Q[0][1] = q
    /\ Q[2 * (n - 2)][n - 2] = q /\ Q[2 * (n - 2)][n - 3] = ONE - q
    /\ Q[2 * (n - 2)][n - 1] = 0

(***************************************************************************)
(* Properties of the solve.                                                *)
(***************************************************************************)
\* backward_induction has allocated its arrays and not failed
Solving == pc \in {"cell9_loop", "cell10", "done"}

\* the periods whose rows the solve has computed so far
Computed == t..(N - 1)

\* Q(s,a) of pair k from the notebook's R, Q and beta and the values vv
QValue(k, vv) == R[k] + FMul(beta, Qdot(Q, vv, k))

\* C6: for every state s and every computed period tt, the Q-value
\* reward(s,a) + beta * sum_s' P(s,a,s') * V_{tt+1}(s') of the chosen action
\* a = policy_tt(s) equals V_tt(s), and no feasible action of s has a strictly
\* higher Q-value.
C6_PolicyConsistent ==
    Solving =>
        \A tt \in Computed : \A s \in 0..(n - 1) :
            /\ Cardinality(PairsOf(s, sigmas[tt][s])) = 1
            /\ \A k \in PairsOf(s, sigmas[tt][s]) : QValue(k, vs[tt + 1]) = vs[tt][s]
            /\ \A k \in DOMAIN s_indices :
                  s_indices[k] = s => QValue(k, vs[tt + 1]) <= vs[tt][s]

\* a finished solve of two periods or more in which, at period 0, one price
\* state exercises and another holds at a positive value
C6_Witness ==
    /\ pc = "cell10" /\ T > 0 /\ N >= 2
    /\ \E s \in 0..(n - 2) : sigmas[0][s] = 1 /\ vs[0][s] > 0
    /\ \E s \in 0..(n - 2) : sigmas[0][s] = 0 /\ vs[0][s] > 0

\* a row of an array that np.empty allocated and nothing wrote
Unwritten(row) == \E g \in Garbage : row = [j \in 0..(n - 1) |-> g]

\* the shape and the order of the solve, as a state predicate
C7_Arrays ==
    Solving =>
        /\ len(vs) = N + 1 /\ \A row \in 0..N : len(vs[row]) = n
        /\ len(sigmas) = N /\ \A row \in 0..(N - 1) : len(sigmas[row]) = n
        /\ vs[N] = terminal_of(v_term, n)
        /\ (v_term = None => \A j \in 0..(n - 1) : vs[N][j] = 0)
        /\ 0 <= t /\ t <= N /\ steps = N - t
        /\ \A row \in Computed :
              LET b == bellman_operator(ddp, vs[row + 1])
              IN  vs[row] = b.Tv /\ sigmas[row] = b.sigma
        /\ \A row \in 0..(t - 1) : Unwritten(vs[row]) /\ Unwritten(sigmas[row])
        /\ (pc \in {"cell10", "done"} => t = 0 /\ steps = N)

\* a backup step writes row t-1 of both arrays and nothing else
C7_Step ==
    steps' # steps =>
        /\ steps' = steps + 1 /\ t' = t - 1 /\ t >= 1
        /\ \A row \in 0..N : row # t - 1 => vs'[row] = vs[row]
        /\ \A row \in 0..(N - 1) : row # t - 1 => sigmas'[row] = sigmas[row]

\* C7: the solve fills a value array of N+1 rows of length n and a policy
\* array of N rows of length n; row N is the terminal vector (zeros by
\* default); the rows are computed in the order N-1, ..., 0, row t from row
\* t+1 alone; and the solve ends after exactly N backup steps: while it runs
\* N - steps = t >= 0 backups are left, every backup lowers t by one, and it
\* returns only when none is left.
C7_Solve == []C7_Arrays /\ [][C7_Step]_vars

\* a solve of MaxN periods has returned
C7_Witness ==
    /\ pc = "cell10" /\ T > 0 /\ N = MaxN /\ steps = N /\ v_term = None
    /\ len(vs) = N + 1 /\ len(sigmas) = N

\* V_tt(s) >= reward(s, policy_tt(s)) in every computed period
ValueAtLeastReward ==
    \A tt \in Computed : \A s \in 0..(n - 1) :
        \A k \in PairsOf(s, sigmas[tt][s]) : vs[tt][s] >= R[k]

\* C8 as stated: for every accepted MDP, every horizon, every terminal value
\* vector, default or supplied, every period t and every state s,
\* V_t(s) >= reward(s, policy_t(s)).
C8_AnyTerminal == Solving => ValueAtLeastReward

\* C8 amended: the same for every terminal value vector that has no negative
\* entry, the default all-zero vector included.
C8_NonNegativeTerminal ==
    (Solving /\ \A j \in 0..(n - 1) : vs[N][j] >= 0) => ValueAtLeastReward

\* a finished solve from a supplied terminal vector that is positive somewhere,
\* in which a price state holds
C8_Witness ==
    /\ pc = "cell10" /\ T > 0
    /\ v_term # None /\ \A j \in 0..(n - 1) : v_term[j] >= 0
    /\ \E j \in 0..(n - 1) : v_term[j] > 0
    /\ \E s \in 0..(n - 2) : sigmas[0][s] = 0 /\ vs[0][s] > R[2 * s]

RECURSIVE solve_values(_, _, _)
\* V_0 of a solve of k periods from the terminal values vv
solve_values(d, vv, k) ==
    IF k = 0 THEN vv ELSE solve_values(d, bellman_operator(d, vv).Tv, k - 1)

\* V_0 of the MDP that differs from the notebook's only in its strike
V0_with_strike(k2) ==
    solve_values(DiscreteDP(R_of(n, ps, k2, 0), Q, beta, s_indices, a_indices),
                 terminal_of(None, n), N)

SeedCase ==
    /\ T = 0 /\ ps = SeedPs /\ strike = 21000 /\ beta = 9900 /\ q = 5000
    /\ N = 2 /\ v_term = None

\* C10: the seed case returns V_1 = (0.3, 0.1, 0, 0), policy_1 = (exercise,
\* exercise, hold, 0), V_0 = (0.3, 0.1485, 0.0495, 0), policy_0 = (exercise,
\* hold, hold, 0).
C10_SeedCase ==
    (SeedCase /\ pc = "cell10") =>
        /\ vs[1] = [j \in 0..3 |-> IF j = 0 THEN 3000 ELSE IF j = 1 THEN 1000 ELSE 0]
        /\ sigmas[1] = [j \in 0..3 |-> IF j <= 1 THEN 1 ELSE 0]
        /\ vs[0] = [j \in 0..3 |-> IF j = 0 THEN 3000 ELSE IF j = 1 THEN 1485
                                   ELSE IF j = 2 THEN 495 ELSE 0]
        /\ sigmas[0] = [j \in 0..3 |-> IF j = 0 THEN 1 ELSE 0]
        /\ vs[2] = [j \in 0..3 |-> 0]

\* the seed case has been solved
C10_Witness ==
    /\ SeedCase /\ pc = "cell10" /\ steps = 2
    /\ n = 4 /\ vs[0][1] = 1485

(***************************************************************************)
(* Parameters that are not all positive.                                   *)
(***************************************************************************)
\* the notebook run from its first cell on parameters of either sign
InitAnySign ==
    /\ pc = "cell3"
    /\ T \in {0} \cup Ts /\ vol = 2000 /\ r \in {-500, 0} \cup Rates
    /\ strike \in {-21000, 0, 21000} /\ p0 \in {-20000, 0} \cup P0s /\ N \in Ns
    /\ tau = 0 /\ beta = 0 /\ u = 0 /\ q = 0
    /\ ps = Unset
    /\ v_term = None
    /\ UnsetBuilt

SpecAnySign == InitAnySign /\ [][Next]_vars

\* a parameter that the builder is to refuse
NonPositiveParameter ==
    T <= 0 \/ vol <= 0 \/ r <= 0 \/ strike <= 0 \/ p0 <= 0 \/ N < 1

\* C11: whenever one of expiration_years, volatility, annual_rate,
\* strike_price, initial_price is non-positive or num_periods < 1, building
\* the MDP fails with InvalidParameter and yields no MDP: the build, once it
\* is over, has ended in InvalidParameter and not in an MDP.
C11_InvalidParameter ==
    NonPositiveParameter =>
        /\ ~Built
        /\ (pc \notin {"cell3", "cell4_ps", "cell4_n", "cell5", "cell6", "cell7",
                       "cell7_loop"} => pc = "InvalidParameter")

(***************************************************************************)
(* C12: the absorbing state under the default terminal vector.             *)
(***************************************************************************)
\* C12: with the default zero terminal vector the absorbing state n-1 has
\* value 0 at every period 0..N and policy 0 at every period 0..N-1 (here:
\* at every period the solve has computed so far, all of them once it returns).
C12_AbsorbingZero ==
    Solving /\ v_term = None =>
        /\ \A tt \in t..N : vs[tt][n - 1] = 0
        /\ \A tt \in Computed : sigmas[tt][n - 1] = 0

\* the notebook's solve of two periods or more has returned under the default
\* terminal vector, with a price state of positive value at period 0
C12_Witness ==
    /\ pc = "cell10" /\ T > 0 /\ N >= 2 /\ v_term = None
    /\ \E s \in 0..(n - 2) : vs[0][s] > 0

(***************************************************************************)
(* C13: the flat state-action pair formulation.                            *)
(***************************************************************************)
\* C13: n = 2N+2 states, L = 2n-1 pairs; the pair at index i is
\* (i div 2, i mod 2); the only pair of the n x 2 grid that is dropped is
\* (absorbing, 1); s_indices, a_indices, R and Q all have length L, and at
\* every index i they refer to that same pair: R[i] is its reward and Q[i]
\* its row.
C13_PairFormulation ==
    Built =>
        /\ n = len(ps) + 1
        /\ (T > 0 => n = 2 * N + 2)
        /\ L = 2 * n - 1
        /\ len(s_indices) = L /\ len(a_indices) = L /\ len(R) = L /\ len(Q) = L
        /\ \A k \in 0..(L - 1) :
              /\ s_indices[k] = k \div 2 /\ a_indices[k] = k % 2
              /\ len(Q[k]) = n
              /\ R[k] = IF k % 2 = 1 THEN strike - ps[k \div 2] ELSE 0
              /\ (k % 2 = 1 \/ k \div 2 = n - 1 => Q[k] = UnitRow(n - 1, ONE))
              /\ (k % 2 = 0 /\ k \div 2 < n - 1 =>
                     /\ Q[k][Min(k \div 2 + 1, n - 2)] = q
                     /\ Q[k][Max(k \div 2 - 1, 0)] = ONE - q)
        /\ {<<s_indices[k], a_indices[k]>> : k \in 0..(L - 1)}
              = ((0..(n - 1)) \X (0..(m - 1))) \ {<<n - 1, 1>>}

\* the notebook's MDP of MaxN periods is built: the last index is the
\* absorbing state's hold pair, and the pair before it exercises at the
\* highest price
C13_Witness ==
    /\ pc = "cell8" /\ T > 0 /\ N = MaxN
    /\ s_indices[L - 1] = n - 1 /\ a_indices[L - 1] = 0
    /\ s_indices[L - 2] = n - 2 /\ a_indices[L - 2] = 1
    /\ R[L - 2] = strike - ps[2 * N] /\ R[L - 2] < 0

(***************************************************************************)
(* C14: ties between actions.                                              *)
(***************************************************************************)
\* C14: when two actions of a state have the same Q-value the policy takes
\* the one with the lower index: no action that attains V_tt(s) has an index
\* below policy_tt(s). In particular a price state whose price equals the
\* strike holds (0) at period N-1 under the zero terminal vector.
C14_TieLowestAction ==
    Solving =>
        /\ \A tt \in Computed : \A k \in DOMAIN s_indices :
              QValue(k, vs[tt + 1]) = vs[tt][s_indices[k]]
                  => sigmas[tt][s_indices[k]] <= a_indices[k]
        /\ (v_term = None /\ t <= N - 1 =>
               \A s \in 0..(n - 2) : ps[s] = strike => sigmas[N - 1][s] = 0)

\* the notebook's solve has returned under the zero terminal vector, and at
\* period N-1 the price state at the strike is tied at 0 and holds
C14_Witness ==
    /\ pc = "cell10" /\ T > 0 /\ v_term = None
    /\ \E s \in 0..(n - 2) :
          /\ ps[s] = strike
          /\ QValue(2 * s, vs[N]) = 0 /\ QValue(2 * s + 1, vs[N]) = 0
          /\ sigmas[N - 1][s] = 0 /\ vs[N - 1][s] = 0

(***************************************************************************)
(* C15: the backup step of a period run by concurrent workers, one per     *)
(* state, in any interleaving.                                             *)
(***************************************************************************)
\* the runs on which the concurrent solve is explored
InitPar ==
    /\ pc = "cell3"
    /\ T = 5000 /\ vol = 2000 /\ r \in Rates
    /\ strike = 21000 /\ p0 \in P0s /\ N \in Ns
    /\ tau = 0 /\ beta = 0 /\ u = 0 /\ q = 0
    /\ ps = Unset
    /\ v_term \in {None, [j \in 0..(2 * N + 1) |-> 500 * j]}
    /\ UnsetBuilt

\* a worker reading the row that is being written
worker_reads_own_row(vsv, tt) == vsv[tt - 1]

\* the vector a worker of the step that reads period tt reads: V_tt
worker_reads(vsv, tt) == vsv[tt]

\* the backup of the single state s from the vector vv
state_backup(d, vv, s) ==
    LET val(k) == d.R[k] + FMul(d.beta, Qdot(d.Q, vv, k))
        best == CHOOSE k \in pairs_of(d, s) :
                    \A k2 \in pairs_of(d, s) :
                        \/ val(k2) < val(k)
                        \/ val(k2) = val(k) /\ d.a_indices[k] <= d.a_indices[k2]
    IN  [Tv |-> val(best), sigma |-> d.a_indices[best]]

\* the call: the MDP is checked, the arrays are allocated, the workers of
\* the first step are released
Par_start ==
    /\ pc = "cell9"
    /\ N >= 1
    /\ ~Malformed(ddp)
    /\ \E g \in Garbage :
          /\ vs' = vs_alloc(N, ddp.num_states, v_term, g)
          /\ sigmas' = sigmas_alloc(N, ddp.num_states, g)
    /\ t' = N
    /\ pending' = 0..(ddp.num_states - 1)
    /\ pc' = "par_loop"
    /\ UNCHANGED <<T, vol, r, strike, p0, N, tau, beta, u, q, ps, n, L,
                   s_indices, a_indices, R, Q, i, ddp, v_term, steps,
                   v, max_exercise_price, chain>>

\* the worker of state s runs: entry s of row t-1 of both arrays
Par_backup(s) ==
    /\ pc = "par_loop"
    /\ t > 0
    /\ s \in pending
    /\ LET b == state_backup(ddp, worker_reads(vs, t), s)
       IN  /\ vs' = [vs EXCEPT ![row_below(t)][s] = b.Tv]
           /\ sigmas' = [sigmas EXCEPT ![row_below(t)][s] = b.sigma]
    /\ pending' = pending \ {s}
    /\ UNCHANGED <<pc, T, vol, r, strike, p0, N, tau, beta, u, q, ps, n, L,
                   s_indices, a_indices, R, Q, i, ddp, v_term, t, steps,
                   v, max_exercise_price, chain>>

\* all workers of the step are through: the next period's step starts
Par_next ==
    /\ pc = "par_loop"
    /\ t > 0
    /\ pending = {}
    /\ t' = t - 1
    /\ steps' = steps + 1
    /\ pending' = IF t - 1 > 0 THEN 0..(ddp.num_states - 1) ELSE {}
    /\ UNCHANGED <<pc, T, vol, r, strike, p0, N, tau, beta, u, q, ps, n, L,
                   s_indices, a_indices, R, Q, i, ddp, v_term, vs, sigmas,
                   v, max_exercise_price, chain>>

\* the last step is over: vs, sigmas are returned
Par_return ==
    /\ pc = "par_loop"
    /\ t = 0
    /\ pc' = "cell10"
    /\ UNCHANGED <<T, vol, r, strike, p0, N, tau, beta, u, q, ps, n, L,
                   s_indices, a_indices, R, Q, i, ddp, v_term, vs, sigmas, t, steps>>
    /\ UNCHANGED aux

NextPar ==
    \/ Cell3 \/ Cell4_ps \/ Cell4_n \/ Cell5 \/ Cell6
    \/ Cell7 \/ Cell7_loop \/ Cell7_last \/ Cell8
    \/ Par_start \/ Cell9_malformed
    \/ (\E s \in 0..(n - 1) : Par_backup(s))
    \/ Par_next \/ Par_return
    \/ Cell10

SpecPar == InitPar /\ [][NextPar]_vars

\* the rows while and after the workers run: every finished period is the
\* sequential backup of the period after it; in the period under way the
\* entries of the states whose worker is through are those of the sequential
\* backup, and the others are as allocated
C15_Rows ==
    pc \in {"par_loop", "cell10", "done"} =>
        /\ \A row \in Computed :
              LET b == bellman_operator(ddp, vs[row + 1])
              IN  vs[row] = b.Tv /\ sigmas[row] = b.sigma
        /\ (t > 0 =>
               LET b == bellman_operator(ddp, vs[t])
               IN  \A s \in 0..(n - 1) :
                      IF s \in pending
                      THEN vs[t - 1][s] \in Garbage /\ sigmas[t - 1][s] \in Garbage
                      ELSE vs[t - 1][s] = b.Tv[s] /\ sigmas[t - 1][s] = b.sigma[s])
        /\ (pc \in {"cell10", "done"} => t = 0 /\ pending = {})

\* a worker's step: one state s leaves pending, entry s of row t-1 of both
\* arrays is a function of V_t alone, and nothing else of the arrays changes
C15_WorkerStep ==
    (pc = "par_loop" /\ pending' # pending /\ pending' \subseteq pending) =>
        \E s \in pending :
            /\ pending' = pending \ {s}
            /\ t' = t /\ t > 0
            /\ vs'[t] = vs[t]
            /\ vs'[t - 1][s] = state_backup(ddp, vs[t], s).Tv
            /\ sigmas'[t - 1][s] = state_backup(ddp, vs[t], s).sigma
            /\ \A row \in 0..N : \A j \in 0..(n - 1) :
                  <<row, j>> # <<t - 1, s>> => vs'[row][j] = vs[row][j]
            /\ \A row \in 0..(N - 1) : \A j \in 0..(n - 1) :
                  <<row, j>> # <<t - 1, s>> => sigmas'[row][j] = sigmas[row][j]

\* C15: within one backup step, with the per-state backups run by concurrent
\* workers in any interleaving, each worker reads only V_{t+1} and writes
\* only the entry of its own state in V_t and policy_t, and the resulting
\* V_t and policy_t are those of the sequential state-by-state loop.
C15_ConcurrentBackup == []C15_Rows /\ [][C15_WorkerStep]_vars

\* in a step that is not the first one, the workers of the absorbing state
\* and of state 1 are through while the worker of state 0 is not: an
\* interleaving that is not the order of the sequential loop
C15_Witness ==
    /\ pc = "par_loop" /\ T > 0 /\ N >= 2 /\ t >= 1 /\ t < N
    /\ 0 \in pending /\ 1 \notin pending /\ (n - 1) \notin pending

(***************************************************************************)
(* C16: the exercise region and the index of the exercise boundary.        *)
(***************************************************************************)
\* zero terminal value, 0 <= q <= 1, beta < 1, strike above the lowest price
ExerciseRegionCase ==
    /\ v_term = None
    /\ 0 <= q /\ q <= ONE
    /\ beta < ONE
    /\ strike > ps[0]

\* C16: in that case, at every period the price states whose policy is
\* exercise are exactly the k lowest ones, 0..k-1, with k >= 1 the sum of the
\* period's policy row; so the index k - 1 that cell 10 uses is in range and
\* max_exercise_price is, for every period, the price of the highest price
\* state at which exercise is chosen.
C16_ExerciseRegion ==
    Solving /\ ExerciseRegionCase =>
        /\ \A tt \in Computed :
              LET k == Sum(sigmas[tt])
              IN  /\ k >= 1 /\ k - 1 \in DOMAIN ps
                  /\ \A s \in 0..(n - 2) : (sigmas[tt][s] = 1) <=> (s < k)
        /\ (pc = "done" =>
               /\ len(max_exercise_price) = N
               /\ \A j \in 0..(N - 1) :
                     \E s \in 0..(n - 2) :
                        /\ sigmas[N - 1 - j][s] = 1
                        /\ \A s2 \in (s + 1)..(n - 2) : sigmas[N - 1 - j][s2] = 0
                        /\ max_exercise_price[j] = ps[s])

\* cell 10 has run on the notebook's solve of two periods or more, and at
\* period 0 some price states exercise and some hold
C16_Witness ==
    /\ pc = "done" /\ T > 0 /\ N >= 2 /\ ExerciseRegionCase
    /\ Sum(sigmas[0]) >= 1 /\ Sum(sigmas[0]) < n - 1
    /\ max_exercise_price[N - 1] = ps[Sum(sigmas[0]) - 1]

(***************************************************************************)
(* C17: the controlled Markov chain of the built MDP: from any price       *)
(* state, any feasible action at every step, any next state the pair's row *)
(* of Q has an entry for.                                                  *)
(***************************************************************************)
\* the runs whose MDP the chain is followed on
InitChain ==
    /\ pc = "cell3"
    /\ T = 5000 /\ vol \in Vols /\ r \in Rates
    /\ strike \in Strikes /\ p0 \in P0s /\ N \in Ns
    /\ tau = 0 /\ beta = 0 /\ u = 0 /\ q = 0
    /\ ps = Unset
    /\ v_term = None
    /\ UnsetBuilt

\* the chain starts in a price state; nothing is collected yet
Chain_start ==
    /\ pc = "cell9"
    /\ \E x0 \in 0..(ddp.num_states - 2) :
          chain' = [x |-> x0, prev |-> x0, a |-> 0, reward |-> 0,
                    exercises |-> 0, length |-> 0]
    /\ pc' = "chain"
    /\ UNCHANGED <<T, vol, r, strike, p0, N, tau, beta, u, q, ps, n, L,
                   s_indices, a_indices, R, Q, i, ddp, v_term, vs, sigmas, t, steps,
                   pending, v, max_exercise_price>>

\* one step: a feasible pair k of the current state, its reward, and a next
\* state that row k of Q has an entry for
Chain_step ==
    /\ pc = "chain"
    /\ chain.length < MaxChain
    /\ \E k \in pairs_of(ddp, chain.x) :
          \E y \in 0..(ddp.num_states - 1) :
             /\ ddp.Q[k][y] # 0
             /\ chain' = [x |-> y, prev |-> chain.x, a |-> ddp.a_indices[k],
                          reward |-> ddp.R[k],
                          exercises |-> chain.exercises + ddp.a_indices[k],
                          length |-> chain.length + 1]
    /\ UNCHANGED <<pc, T, vol, r, strike, p0, N, tau, beta, u, q, ps, n, L,
                   s_indices, a_indices, R, Q, i, ddp, v_term, vs, sigmas, t, steps,
                   pending, v, max_exercise_price>>

NextChain ==
    \/ Cell3 \/ Cell4_ps \/ Cell4_n \/ Cell5 \/ Cell6
    \/ Cell7 \/ Cell7_loop \/ Cell7_last \/ Cell8
    \/ Chain_start \/ Chain_step

SpecChain == InitChain /\ [][NextChain]_vars

\* a step of the chain: into the absorbing state only by exercise (1), never
\* by hold; out of the absorbing state never, and with reward 0
C17_Step ==
    (pc = "chain" /\ pc' = "chain" /\ chain' # chain) =>
        /\ chain'.prev = chain.x
        /\ (chain.x # n - 1 /\ chain'.x = n - 1 => chain'.a = 1)
        /\ (chain.x # n - 1 /\ chain'.a = 0 => chain'.x # n - 1)
        /\ (chain.x = n - 1 => chain'.x = n - 1 /\ chain'.a = 0 /\ chain'.reward = 0)

\* the exercise payoff is collected at most once, and only on the way into
\* the absorbing state
C17_Once ==
    pc = "chain" =>
        /\ chain.exercises <= 1
        /\ (chain.exercises = 1 <=> chain.x = n - 1)

\* C17: in the controlled Markov chain of the built MDP, under any sequence
\* of feasible actions, the absorbing state is entered only by an exercise
\* action and never by hold; once entered it is never left; every reward
\* after entering it is 0; so along any trajectory the exercise payoff is
\* collected at most once.
C17_AbsorbedOnce == []C17_Once /\ [][C17_Step]_vars

\* a trajectory of MaxChain steps that exercised once and whose last step
\* was taken in the absorbing state, by hold and at reward 0
C17_Witness ==
    /\ pc = "chain" /\ T > 0
    /\ chain.length = MaxChain /\ chain.exercises = 1
    /\ chain.prev = n - 1 /\ chain.x = n - 1 /\ chain.a = 0 /\ chain.reward = 0
====
